---- MODULE Spec2Model ----
(***************************************************************************)
(* A model of taurus-pro-opentelemetry: the tracer-provider construction   *)
(* (pkg/otelemetry/provider.go, options.go), the process-wide tracer       *)
(* registry (pkg/otelemetry/otel_mysql.go, second file part) and the       *)
(* span-lifecycle hooks (gRPC, HTTP, GORM, Redis).                         *)
(*                                                                         *)
(* The specifications share the variables:                                 *)
(*   Spec          goroutines calling NewOTelProvider, step by step, so    *)
(*                 that concurrent calls interleave;                       *)
(*   RegistrySpec  NewOTelProvider with RegisterTracer and GetTracer;      *)
(*   ShutdownSpec  NewOTelProvider with Shutdown;                          *)
(*   ConfigSpec    one NewOTelProvider call, over option lists and         *)
(*                 process environments;                                   *)
(*   RaceSpec      goroutines calling RegisterTracer and GetTracer, the    *)
(*                 map accesses interleaving;                              *)
(*   HookSpec      one intercepted call at a time going through a hook;    *)
(*   StreamSpec    stream handlers using the stream they are given.        *)
(***************************************************************************)
EXTENDS Naturals, Sequences, FiniteSets, TLC

VARIABLES
    providers,              \* heap of OTelProvider structs, addressed 1..Len
    exporters,              \* every exporter created so far
    tracerProviders,        \* every sdktrace.TracerProvider created so far
    globalTracerProvider,   \* otel.GetTracerProvider(): 0 = the SDK's default
    globalPropagator,       \* otel.GetTextMapPropagator()
    Provider,               \* the package variable `Provider *OTelProvider`
    tracerRegistry,         \* the package variable tracerRegistry (a Go map)
    gor,                    \* each goroutine's position inside NewOTelProvider
    ret,                    \* what each goroutine's last NewOTelProvider returned
    lastCall,               \* the latest Shutdown / RegisterTracer / GetTracer call
    bodyRuns,               \* history: how often the once.Do body was entered
    lastRegistered,         \* history: name -> tracer of the latest RegisterTracer
    registryLog,            \* the names logged as "already registered"
    call,                   \* the intercepted call a hook is working on
    spans,                  \* the spans of that call
    redisTrace,             \* what the go-redis client ran for the last command
    osEnv,                  \* the process environment (os.Getenv): name -> value
    callbacks,              \* GORM's callback chains: operation kind -> names
    mapAccess,              \* each goroutine's position inside RegisterTracer / GetTracer
    everRegistered          \* history: the <<name, tracer>> pairs ever registered

otelGlobals == <<globalTracerProvider, globalPropagator>>
registryVars == <<tracerRegistry, lastRegistered, registryLog, everRegistered>>
sideVars == <<osEnv, callbacks, mapAccess>>
hookVars == <<call, spans, redisTrace>>
vars == <<providers, exporters, tracerProviders, globalTracerProvider,
          globalPropagator, Provider, tracerRegistry, gor, ret, lastCall,
          bodyRuns, lastRegistered, registryLog, call, spans, redisTrace,
          osEnv, callbacks, mapAccess, everRegistered>>

(***************************************************************************)
(* Bounds of the model.                                                    *)
(***************************************************************************)
\* goroutines that call into the package concurrently
NumGoroutines == 2
\* NewOTelProvider calls in one run (each allocates a provider)
MaxProviders == 2

\* options in one NewOTelProvider call
MaxOptions == 2
\* calls a stream handler makes on its stream
MaxStreamOps == 2

\* calls a handler makes on its response writer
MaxHttpOps == 2
\* commands in one Redis pipeline
MaxCmds == 2

Goroutines == 1..NumGoroutines

\* a nil pointer (provider, tracer provider, exporter): address 0
Nil == 0

\* the environment with no OTEL_* variable set
NoEnv == [k \in {} |-> ""]

(***************************************************************************)
(* Errors. A Go error is a record; NoError is the nil error.  Error() and  *)
(* fmt.Errorf("...: %w") are modelled by what they do to the text.         *)
(***************************************************************************)
NoError == [kind |-> "nil", code |-> "", msg |-> ""]

PlainError(msg) == [kind |-> "plain", code |-> "", msg |-> msg]

\* fmt.Errorf(prefix + ": %w", err)
Wrap(prefix, err) == PlainError(prefix \o ": " \o err.msg)

(***************************************************************************)
(* options.go                                                              *)
(***************************************************************************)
ProtocolGRPC == "grpc"
ProtocolHTTP == "http"
ProtocolJSON == "json"

\* durations in seconds, the sampling ratio in tenths
defaultOptions ==
    [serviceName        |-> "unknown-service",
     serviceVersion     |-> "1.0.0",
     environment        |-> "development",
     protocol           |-> ProtocolGRPC,
     endpoint           |-> "localhost:4317",
     insecure           |-> TRUE,
     timeout            |-> 5,
     samplingRatio      |-> 10,
     batchTimeout       |-> 5,
     exportTimeout      |-> 30,
     maxExportBatchSize |-> 512,
     maxQueueSize       |-> 2048]

\* an Option is the closure a With* function returns: the field it assigns
\* and the value it captured
WithServiceName(name)      == [field |-> "serviceName", value |-> name]
WithEndpoint(endpoint)     == [field |-> "endpoint", value |-> endpoint]
WithInsecure(insecure)     == [field |-> "insecure", value |-> insecure]
WithExportProtocol(proto)  == [field |-> "protocol", value |-> proto]
WithServiceVersion(version) == [field |-> "serviceVersion", value |-> version]
WithEnvironment(env)       == [field |-> "environment", value |-> env]
WithTimeout(timeout)       == [field |-> "timeout", value |-> timeout]
WithSamplingRatio(ratio)   == [field |-> "samplingRatio", value |-> ratio]
WithBatchTimeout(timeout)  == [field |-> "batchTimeout", value |-> timeout]
WithExportTimeout(timeout) == [field |-> "exportTimeout", value |-> timeout]
WithMaxExportBatchSize(size) == [field |-> "maxExportBatchSize", value |-> size]
WithMaxQueueSize(size)     == [field |-> "maxQueueSize", value |-> size]

\* a faulty ApplyOption: a field an earlier option has moved off its default
\* is kept (the first option wins)
ApplyOptionKeepFirst(o, opt) ==
    IF o[opt.field] = defaultOptions[opt.field]
    THEN [o EXCEPT ![opt.field] = opt.value]
    ELSE o

\* opt(options)
ApplyOption(o, opt) == [o EXCEPT ![opt.field] = opt.value]

RECURSIVE ApplyOptions(_, _)
\* for _, opt := range opts { opt(options) }
ApplyOptions(o, opts) ==
    IF opts = <<>> THEN o
    ELSE ApplyOptions(ApplyOption(o, Head(opts)), Tail(opts))

\* the option lists the callers of the model pass to NewOTelProvider
OptionLists ==
    { <<>>,
      <<WithExportProtocol("kafka")>>,
      <<WithEndpoint(""), WithExportProtocol(ProtocolJSON)>> }

(***************************************************************************)
(* provider.go                                                             *)
(***************************************************************************)
\* the zero value of the struct OTelProvider
ZeroProvider == [opts |-> defaultOptions, tracerProvider |-> Nil, once |-> "fresh"]

\* p := &OTelProvider{opts: options}
NewProviderStruct(options) ==
    [opts |-> options, tracerProvider |-> Nil, once |-> "fresh"]

\* createExporter: the exporter it builds, or the error. sdkFails is the
\* outcome of otlptracegrpc.New / otlptracehttp.New.
createExporter(opts, sdkFails) ==
    LET endpoint == IF opts.endpoint = "" THEN "localhost:4317" ELSE opts.endpoint
    IN  CASE opts.protocol = ProtocolGRPC ->
               IF sdkFails
               THEN [exporter |-> Nil, err |-> PlainError("grpc exporter")]
               ELSE [exporter |-> [transport |-> "grpc",
                                   endpoint  |-> IF endpoint = "" THEN "localhost:4317"
                                                 ELSE endpoint,
                                   insecure  |-> opts.insecure,
                                   timeout   |-> opts.timeout,
                                   json      |-> FALSE],
                     err |-> NoError]
          [] opts.protocol \in {ProtocolHTTP, ProtocolJSON} ->
               IF sdkFails
               THEN [exporter |-> Nil, err |-> PlainError("http exporter")]
               ELSE [exporter |-> [transport |-> "http",
                                   endpoint  |-> IF endpoint = "" THEN "localhost:4318"
                                                 ELSE endpoint,
                                   insecure  |-> opts.insecure,
                                   timeout   |-> opts.timeout,
                                   json      |-> opts.protocol = ProtocolJSON],
                     err |-> NoError]
          [] OTHER ->
               [exporter |-> Nil,
                err |-> PlainError("unsupported protocol: " \o opts.protocol)]

\* a trace.Tracer: the tracer provider it came from and its instrumentation
\* name; NoTracer stands for "no tracer returned"
NoTracer == [tp |-> Nil, name |-> ""]

\* a faulty NewReturn: the provider is handed out although setup failed
NewReturnKeepsProvider(p, err) ==
    [op |-> "NewOTelProvider", p |-> p, shutdown |-> p,
     err |-> IF err # NoError THEN Wrap("setup provider failed", err) ELSE NoError,
     panicked |-> FALSE]

\* NewOTelProvider, lines 98-103: what the call returns
NewReturn(p, err) ==
    IF err # NoError
    THEN [op |-> "NewOTelProvider", p |-> Nil, shutdown |-> Nil,
          err |-> Wrap("setup provider failed", err), panicked |-> FALSE]
    ELSE [op |-> "NewOTelProvider", p |-> p, shutdown |-> p,
          err |-> NoError, panicked |-> FALSE]

\* a goroutine outside NewOTelProvider. wroteGlobals is history: whether the
\* goroutine's latest NewOTelProvider call assigned a process-wide OTel global
\* of the latest call; opts is the option list the call was given
Idle == [pc |-> "idle", p |-> Nil, err |-> NoError, exporter |-> Nil,
         wroteGlobals |-> FALSE, opts |-> <<>>]

NoReturn == [op |-> "none", p |-> Nil, shutdown |-> Nil, err |-> NoError,
             panicked |-> FALSE]

\* NewOTelProvider, lines 55-62, called with one of the option lists: the
\* options are applied to the defaults and a new OTelProvider is allocated
NewOTelProvider_Call(g, lists) ==
    /\ gor[g].pc = "idle"
    /\ \E opts \in lists :
         /\ providers' = Append(providers,
                                NewProviderStruct(ApplyOptions(defaultOptions, opts)))
         /\ gor' = [gor EXCEPT ![g] = [Idle EXCEPT !.pc = "once",
                                                    !.p = Len(providers) + 1,
                                                    !.opts = opts]]
    /\ UNCHANGED <<exporters, tracerProviders, otelGlobals, Provider,
                   registryVars, ret, lastCall, bodyRuns>>
    /\ UNCHANGED hookVars
    /\ UNCHANGED sideVars

NewOTelProvider_Begin(g) ==
    /\ Len(providers) < 1 + MaxProviders
    /\ NewOTelProvider_Call(g, OptionLists)

\* p.once.Do(func() {...}), line 65: sync.Once runs the body if it never
\* ran, returns at once if it is done, and blocks while another goroutine runs it
OnceDo(g) ==
    /\ gor[g].pc = "once"
    /\ providers[gor[g].p].once # "running"
    /\ IF providers[gor[g].p].once = "fresh"
       THEN /\ providers' = [providers EXCEPT ![gor[g].p].once = "running"]
            /\ gor' = [gor EXCEPT ![g].pc = "createExporter"]
            /\ bodyRuns' = bodyRuns + 1
       ELSE /\ gor' = [gor EXCEPT ![g].pc = "return"]
            /\ UNCHANGED <<providers, bodyRuns>>
    /\ UNCHANGED <<exporters, tracerProviders, otelGlobals, Provider,
                   registryVars, ret, lastCall>>
    /\ UNCHANGED hookVars
    /\ UNCHANGED sideVars

\* lines 67-72
CreateExporterStep(g) ==
    /\ gor[g].pc = "createExporter"
    /\ \E sdkFails \in BOOLEAN :
         LET r == createExporter(providers[gor[g].p].opts, sdkFails)
         IN  IF r.err # NoError
             THEN /\ gor' = [gor EXCEPT
                               ![g].err = Wrap("create exporter failed", r.err),
                               ![g].pc = "return"]
                  /\ providers' = [providers EXCEPT ![gor[g].p].once = "done"]
                  /\ UNCHANGED exporters
             ELSE /\ exporters' = Append(exporters, r.exporter)
                  /\ gor' = [gor EXCEPT ![g].exporter = Len(exporters) + 1,
                                        ![g].pc = "createResource"]
                  /\ UNCHANGED providers
    /\ UNCHANGED <<tracerProviders, otelGlobals, Provider, registryVars, ret,
                   lastCall, bodyRuns>>
    /\ UNCHANGED hookVars
    /\ UNCHANGED sideVars

\* lines 75-83: createResource (resource.New may fail), then
\* p.tracerProvider = p.createTracerProvider(exporter, res)
CreateTracerProviderStep(g) ==
    /\ gor[g].pc = "createResource"
    /\ \E resourceFails \in BOOLEAN :
         IF resourceFails
         THEN /\ gor' = [gor EXCEPT
                           ![g].err = Wrap("create resource failed",
                                           PlainError("resource")),
                           ![g].pc = "return"]
              /\ providers' = [providers EXCEPT ![gor[g].p].once = "done"]
              /\ UNCHANGED tracerProviders
         ELSE /\ tracerProviders' =
                    Append(tracerProviders,
                           [exporter      |-> gor[g].exporter,
                            serviceName   |-> providers[gor[g].p].opts.serviceName,
                            samplingRatio |-> providers[gor[g].p].opts.samplingRatio,
                            shutdown      |-> FALSE])
              /\ providers' = [providers EXCEPT
                                 ![gor[g].p].tracerProvider = Len(tracerProviders) + 1]
              /\ gor' = [gor EXCEPT ![g].pc = "setTracerProvider"]
    /\ UNCHANGED <<exporters, otelGlobals, Provider, registryVars, ret,
                   lastCall, bodyRuns>>
    /\ UNCHANGED hookVars
    /\ UNCHANGED sideVars

\* line 88: otel.SetTracerProvider(p.tracerProvider)
SetTracerProviderStep(g) ==
    /\ gor[g].pc = "setTracerProvider"
    /\ globalTracerProvider' = providers[gor[g].p].tracerProvider
    /\ gor' = [gor EXCEPT ![g].pc = "setPropagator", ![g].wroteGlobals = TRUE]
    /\ UNCHANGED <<providers, exporters, tracerProviders, globalPropagator,
                   Provider, registryVars, ret, lastCall, bodyRuns>>
    /\ UNCHANGED hookVars
    /\ UNCHANGED sideVars

\* lines 92-96: otel.SetTextMapPropagator(...), end of the once.Do body
SetTextMapPropagatorStep(g) ==
    /\ gor[g].pc = "setPropagator"
    /\ globalPropagator' = "tracecontext,baggage"
    /\ providers' = [providers EXCEPT ![gor[g].p].once = "done"]
    /\ gor' = [gor EXCEPT ![g].pc = "return", ![g].wroteGlobals = TRUE]
    /\ UNCHANGED <<exporters, tracerProviders, globalTracerProvider, Provider,
                   registryVars, ret, lastCall, bodyRuns>>
    /\ UNCHANGED hookVars
    /\ UNCHANGED sideVars

\* lines 98-103
NewOTelProvider_Return(g) ==
    /\ gor[g].pc = "return"
    /\ ret' = [ret EXCEPT ![g] = NewReturn(gor[g].p, gor[g].err)]
    /\ gor' = [gor EXCEPT ![g].pc = "idle"]
    /\ UNCHANGED <<providers, exporters, tracerProviders, otelGlobals,
                   Provider, registryVars, lastCall, bodyRuns>>
    /\ UNCHANGED hookVars
    /\ UNCHANGED sideVars

\* OTelProvider.Tracer, lines 218-220: p.tracerProvider.Tracer(name). A nil
\* receiver or a nil tracerProvider is a nil-pointer dereference.
Tracer(p, name) ==
    IF p = Nil \/ providers[p].tracerProvider = Nil
    THEN [val |-> NoTracer, panicked |-> TRUE]
    ELSE [val |-> [tp |-> providers[p].tracerProvider, name |-> name],
          panicked |-> FALSE]

\* the record of a finished call: the operation, its argument (a provider
\* pointer or a registry name), the error and the tracer it returned, and
\* whether it panicked instead of returning
NoCall == [op |-> "none", p |-> Nil, name |-> "", err |-> NoError,
           val |-> NoTracer, panicked |-> FALSE]

\* a faulty Shutdown: the nil check of the tracer provider is missing
ShutdownUnguarded(p, sdkErr) ==
    IF p = Nil \/ providers[p].tracerProvider = Nil
    THEN [tps |-> tracerProviders,
          ret |-> [NoCall EXCEPT !.op = "Shutdown", !.p = p, !.panicked = TRUE]]
    ELSE [tps |-> [tracerProviders EXCEPT
                     ![providers[p].tracerProvider].shutdown = TRUE],
          ret |-> [NoCall EXCEPT !.op = "Shutdown", !.p = p,
                       !.err = IF sdkErr THEN PlainError("shutdown") ELSE NoError]]

\* OTelProvider.Shutdown, lines 223-228: the tracer providers after the call
\* and what it returns. sdkErr is the outcome of the SDK's Shutdown.
Shutdown(p, sdkErr) ==
    IF p = Nil
    THEN [tps |-> tracerProviders,
          ret |-> [NoCall EXCEPT !.op = "Shutdown", !.p = p, !.panicked = TRUE]]
    ELSE IF providers[p].tracerProvider = Nil
    THEN [tps |-> tracerProviders,
          ret |-> [NoCall EXCEPT !.op = "Shutdown", !.p = p]]
    ELSE [tps |-> [tracerProviders EXCEPT
                     ![providers[p].tracerProvider].shutdown = TRUE],
          ret |-> [NoCall EXCEPT !.op = "Shutdown", !.p = p,
                       !.err = IF sdkErr THEN PlainError("shutdown") ELSE NoError]]

\* the provider pointers a caller can hold: nil, the zero-value struct, and
\* the providers NewOTelProvider has handed out
CallerProviders ==
    {Nil, 1} \cup
    { p \in 2..Len(providers) :
        /\ providers[p].tracerProvider # Nil
        /\ \A h \in Goroutines : gor[h].pc = "idle" \/ gor[h].p # p }

\* a caller invokes provider.Shutdown(ctx), or the shutdown func that
\* NewOTelProvider returned (lines 101-103), which does the same
ShutdownCall ==
    /\ \E p \in CallerProviders, sdkErr \in BOOLEAN :
         LET r == Shutdown(p, sdkErr)
         IN  /\ tracerProviders' = r.tps
             /\ lastCall' = r.ret
    /\ UNCHANGED <<providers, exporters, otelGlobals, Provider, registryVars,
                   gor, ret, bodyRuns>>
    /\ UNCHANGED hookVars
    /\ UNCHANGED sideVars

(***************************************************************************)
(* The tracer registry (otel_mysql.go, second part, lines 121-136)         *)
(***************************************************************************)
RegistryNames == {"mysql", "redis"}

\* the tracers a caller passes: otel.Tracer(name), from the global tracer
\* provider (tp = 0)
CallerTracers == { [tp |-> Nil, name |-> n] : n \in {"client", "server"} }

\* a faulty RegistryPut: a registered name is kept (first writer wins)
RegistryPutIfAbsent(reg, name, tracer) ==
    IF name \in DOMAIN reg THEN reg
    ELSE [n \in DOMAIN reg \cup {name} |-> IF n = name THEN tracer ELSE reg[n]]

\* line 127: tracerRegistry[name] = tracer
RegistryPut(reg, name, tracer) ==
    [n \in DOMAIN reg \cup {name} |-> IF n = name THEN tracer ELSE reg[n]]

\* RegisterTracer, lines 123-128 (an overwrite is logged, lines 124-126,
\* and then done all the same)
RegisterTracer ==
    /\ \E name \in RegistryNames, tracer \in CallerTracers :
         /\ tracerRegistry' = RegistryPut(tracerRegistry, name, tracer)
         /\ lastRegistered' =
                [n \in DOMAIN lastRegistered \cup {name} |->
                    IF n = name THEN tracer ELSE lastRegistered[n]]
         /\ registryLog' = IF name \in DOMAIN tracerRegistry
                           THEN registryLog \cup {name} ELSE registryLog
         /\ everRegistered' = everRegistered \cup {<<name, tracer>>}
         /\ lastCall' = [NoCall EXCEPT !.op = "RegisterTracer", !.name = name,
                                       !.val = tracer]
    /\ UNCHANGED <<providers, exporters, tracerProviders, otelGlobals, Provider,
                   gor, ret, bodyRuns>>
    /\ UNCHANGED hookVars
    /\ UNCHANGED sideVars

\* GetTracer, lines 130-136: the value returned, or the panic
GetTracerResult(name) ==
    IF name \in DOMAIN tracerRegistry
    THEN [val |-> tracerRegistry[name], panicked |-> FALSE]
    ELSE Tracer(Provider, "default")

GetTracer ==
    /\ \E name \in RegistryNames :
         lastCall' = [NoCall EXCEPT !.op = "GetTracer", !.name = name,
                                    !.val = GetTracerResult(name).val,
                                    !.panicked = GetTracerResult(name).panicked]
    /\ UNCHANGED <<providers, exporters, tracerProviders, otelGlobals, Provider,
                   registryVars, gor, ret, bodyRuns>>
    /\ UNCHANGED hookVars
    /\ UNCHANGED sideVars

(***************************************************************************)
(* Spans. The hooks use the OpenTelemetry span through Start, SetAttributes,*)
(* SetStatus, RecordError and End. A span is a record of its name, its     *)
(* attributes, its status, the errors recorded on it, and the log of the   *)
(* calls made on it. As in the SDK, a call on an ended span changes        *)
(* nothing, a status of higher rank is not replaced by one of lower rank   *)
(* (Unset < Error < Ok) and only an Error status keeps its description.    *)
(***************************************************************************)
StatusRank(code) == CASE code = "Unset" -> 0 [] code = "Error" -> 1 [] code = "Ok" -> 2

Recording(span) == \A i \in 1..Len(span.log) : span.log[i] # "End"

\* tracer.Start(ctx, name, trace.WithAttributes(attrs...))
StartSpan(name, attrs) ==
    [name   |-> name,
     attrs  |-> attrs,
     status |-> [code |-> "Unset", msg |-> ""],
     errors |-> <<>>,
     log    |-> <<"Start">>]

\* m1 extended by the keys only m2 has
Merge(m1, m2) ==
    [k \in DOMAIN m1 \cup DOMAIN m2 |-> IF k \in DOMAIN m1 THEN m1[k] ELSE m2[k]]

\* span.SetAttributes(kvs...)
SetAttributes(span, kvs) ==
    [span EXCEPT !.attrs = IF Recording(span) THEN Merge(kvs, @) ELSE @,
                 !.log   = Append(@, "SetAttributes")]

\* span.SetStatus(code, description)
SetStatus(span, code, description) ==
    [span EXCEPT
       !.status = IF Recording(span) /\ StatusRank(@.code) <= StatusRank(code)
                  THEN [code |-> code,
                        msg  |-> IF code = "Error" THEN description ELSE ""]
                  ELSE @,
       !.log    = Append(@, "SetStatus")]

\* span.RecordError(err)
RecordError(span, err) ==
    [span EXCEPT !.errors = IF Recording(span) THEN Append(@, err) ELSE @,
                 !.log    = Append(@, "RecordError")]

\* span.End()
End(span) == [span EXCEPT !.log = Append(@, "End")]

(***************************************************************************)
(* Errors of the wrapped calls                                             *)
(***************************************************************************)
\* status.Error(code, msg): an error carrying a gRPC status
StatusError(code, msg) == [kind |-> "status", code |-> code, msg |-> msg]

\* err.Error()
ErrorText(err) ==
    IF err.kind = "status"
    THEN "rpc error: code = " \o err.code \o " desc = " \o err.msg
    ELSE err.msg

\* st, _ := status.FromError(err); st.Message(): the status message of a
\* status error, and the whole text of any other error (code Unknown)
StatusMessage(err) == IF err.kind = "status" THEN err.msg ELSE ErrorText(err)

\* redis.Nil, the reply of a missing key
RedisNilError == PlainError("redis: nil")

(***************************************************************************)
(* The intercepted call a hook works on                                    *)
(***************************************************************************)
NoResult == [resp |-> "", err |-> NoError]

\* kind: which hook; phase: idle, before (the before hook ran), core (the
\* wrapped operation ran), done, panicked; in: the call's inputs; err: the
\* wrapped operation's error; ctxSpan: the span stored in the context under
\* the hook's key (0: none); handlerCalls: how often the wrapped handler ran;
\* ret: what the hook returned to its caller
\* trace: the functions GORM ran for the statement, in order; stream: the
\* wrapped stream a stream handler was given and what its calls returned
NoHookCall == [kind |-> "none", phase |-> "idle", in |-> <<>>, err |-> NoError,
               ctxSpan |-> 0, handlerCalls |-> 0, ret |-> NoResult,
               trace |-> <<>>, stream |-> <<>>]

\* no intercepted call is under way
HookFree == call.phase \in {"idle", "done", "panicked"}

\* what a wrapped handler or operation does: it returns a response and an
\* error, or it panics
HandlerErrors == {NoError, PlainError("boom"), StatusError("NotFound", "not found")}
HandlerOutcomes ==
    [panics : {FALSE}, resp : {"", "reply"}, err : HandlerErrors]
        \cup { [panics |-> TRUE, resp |-> "", err |-> NoError] }

\* the incoming gRPC context: whether it carries a peer, and its metadata
\* (key -> first value)
GrpcContexts ==
    [hasPeer : BOOLEAN, md : { <<>>, [k \in {"x-request-id"} |-> "42"] }]

MetadataAttrs(md) == [k \in {"rpc.metadata." \o key : key \in DOMAIN md} |-> "42"]

(***************************************************************************)
(* example/grpc/main.go: the gRPC interceptors                             *)
(***************************************************************************)
\* lines 68-78 and 123-133: the duration attribute, then the status from
\* the handler's error
RecordOutcome(span, err) ==
    LET timed == SetAttributes(span, [k \in {"rpc.duration"} |-> "d"])
    IN  IF err # NoError
        THEN RecordError(SetStatus(timed, "Error", StatusMessage(err)), err)
        ELSE SetStatus(timed, "Ok", "success")

\* a faulty UnaryReturn: the error is rebuilt from the status message
UnaryReturnRebuilt(resp, err) ==
    [resp |-> resp,
     err  |-> IF err = NoError THEN NoError ELSE PlainError(StatusMessage(err))]

\* line 80: return resp, err
UnaryReturn(resp, err) == [resp |-> resp, err |-> err]

\* TracingInterceptor, lines 39-81, for the context ctx, the method and the
\* handler's outcome: the spans, the handler calls, the return value or the
\* panic. p.Addr is read while the arguments of tracer.Start are built, so a
\* context without peer panics before any span exists.
TracingInterceptor(ctx, method, outcome) ==
    IF ~ctx.hasPeer
    THEN [spans |-> <<>>, handlerCalls |-> 0, panicked |-> TRUE, ret |-> NoResult]
    ELSE LET started == StartSpan("grpc." \o method,
                                  [k \in {"rpc.system", "rpc.method", "peer.address"} |->
                                     CASE k = "rpc.system" -> "grpc"
                                       [] k = "rpc.method" -> method
                                       [] k = "peer.address" -> "10.0.0.1:5000"])
             span == IF ctx.md = <<>> THEN started
                     ELSE SetAttributes(started, MetadataAttrs(ctx.md))
         IN  IF outcome.panics
             THEN [spans |-> <<End(span)>>, handlerCalls |-> 1, panicked |-> TRUE,
                   ret |-> NoResult]
             ELSE [spans |-> <<End(RecordOutcome(span, outcome.err))>>,
                   handlerCalls |-> 1, panicked |-> FALSE,
                   ret |-> UnaryReturn(outcome.resp, outcome.err)]

\* streamType, lines 150-159
streamType(isClientStream, isServerStream) ==
    IF isClientStream /\ isServerStream THEN "bidirectional"
    ELSE IF isClientStream THEN "client"
    ELSE IF isServerStream THEN "server"
    ELSE "unary"

\* StreamTracingInterceptor, lines 93-109: the span of a stream whose
\* context has a peer, started and given the metadata attributes
StreamSpan(ctx, method, isClientStream, isServerStream) ==
    LET started == StartSpan("grpc.stream." \o method,
                             [k \in {"rpc.system", "rpc.method",
                                     "rpc.stream.type", "peer.address"} |->
                                CASE k = "rpc.system" -> "grpc"
                                  [] k = "rpc.method" -> method
                                  [] k = "rpc.stream.type" ->
                                       streamType(isClientStream, isServerStream)
                                  [] k = "peer.address" -> "10.0.0.1:5000"])
    IN  IF ctx.md = <<>> THEN started
        ELSE SetAttributes(started, MetadataAttrs(ctx.md))

\* StreamTracingInterceptor, lines 86-136; the handler of a stream returns
\* an error only
StreamTracingInterceptor(ctx, method, isClientStream, isServerStream, outcome) ==
    IF ~ctx.hasPeer
    THEN [spans |-> <<>>, handlerCalls |-> 0, panicked |-> TRUE, ret |-> NoResult]
    ELSE LET span == StreamSpan(ctx, method, isClientStream, isServerStream)
         IN  IF outcome.panics
             THEN [spans |-> <<End(span)>>, handlerCalls |-> 1, panicked |-> TRUE,
                   ret |-> NoResult]
             ELSE [spans |-> <<End(RecordOutcome(span, outcome.err))>>,
                   handlerCalls |-> 1, panicked |-> FALSE,
                   ret |-> [resp |-> "", err |-> outcome.err]]

\* a unary RPC arrives and goes through TracingInterceptor
UnaryCall ==
    /\ HookFree
    /\ \E ctx \in GrpcContexts, outcome \in HandlerOutcomes :
         LET r == TracingInterceptor(ctx, "/user.User/Get", outcome)
         IN  /\ spans' = r.spans
             /\ call' = [NoHookCall EXCEPT
                           !.kind = "unary",
                           !.phase = IF r.panicked THEN "panicked" ELSE "done",
                           !.in = [ctx |-> ctx, outcome |-> outcome],
                           !.err = outcome.err,
                           !.handlerCalls = r.handlerCalls,
                           !.ret = r.ret]
    /\ UNCHANGED <<redisTrace, providers, exporters, tracerProviders, otelGlobals,
                   Provider, registryVars, gor, ret, lastCall, bodyRuns>>
    /\ UNCHANGED sideVars

\* a streaming RPC arrives and goes through StreamTracingInterceptor
StreamCall ==
    /\ HookFree
    /\ \E ctx \in GrpcContexts, outcome \in HandlerOutcomes,
          isClientStream \in BOOLEAN, isServerStream \in BOOLEAN :
         /\ outcome.resp = ""
         /\ LET r == StreamTracingInterceptor(ctx, "/user.User/Watch",
                                              isClientStream, isServerStream, outcome)
            IN  /\ spans' = r.spans
                /\ call' = [NoHookCall EXCEPT
                              !.kind = "stream",
                              !.phase = IF r.panicked THEN "panicked" ELSE "done",
                              !.in = [ctx |-> ctx, outcome |-> outcome],
                              !.err = outcome.err,
                              !.handlerCalls = r.handlerCalls,
                              !.ret = r.ret]
    /\ UNCHANGED <<redisTrace, providers, exporters, tracerProviders, otelGlobals,
                   Provider, registryVars, gor, ret, lastCall, bodyRuns>>
    /\ UNCHANGED sideVars

(***************************************************************************)
(* The stream handed to a stream handler (example/grpc/main.go, lines      *)
(* 111-147). A context is the incoming context and the span it carries     *)
(* (0: none). A grpc.ServerStream is its context and the log of the calls  *)
(* it received. A call of the handler is the operation, its argument and   *)
(* the result the transport will give it.                                  *)
(***************************************************************************)
\* ss, the stream gRPC passes to the interceptor
IncomingStream(ctx) == [ctx |-> [base |-> ctx, span |-> 0], log |-> <<>>]

\* the context tracer.Start returns (line 95): ctx with the new span
ContextWithSpan(ctx, span) == [ctx EXCEPT !.span = span]

\* lines 112-115: &wrappedServerStream{ServerStream: ss, ctx: ctx}
wrappedServerStream(ss, ctx) == [ServerStream |-> ss, ctx |-> ctx]

\* a faulty Context: the embedded stream's context is returned
ContextOfEmbedded(w) == w.ServerStream.ctx

\* wrappedServerStream.Context, lines 145-147
Context(w) == w.ctx

\* a method other than Context is the embedded grpc.ServerStream's (lines
\* 141-142): the call goes to ss with its argument and its result comes back
Promoted(w, step) ==
    [w      |-> [w EXCEPT !.ServerStream.log =
                              Append(@, [op |-> step.op, arg |-> step.arg])],
     result |-> step.result]

\* the handler calls a method of the stream it was given
StreamOpOn(w, step) ==
    IF step.op = "Context" THEN [w |-> w, result |-> Context(w)]
    ELSE Promoted(w, step)

\* the calls a handler can make, with what the transport answers
StreamSteps ==
    [op : {"SendMsg", "RecvMsg", "SetHeader", "SendHeader"}, arg : {"x"},
     result : {NoError, PlainError("EOF")}]
    \cup { [op |-> "SetTrailer", arg |-> "x", result |-> NoError],
           [op |-> "Context", arg |-> "", result |-> NoError] }

\* a streaming RPC arrives: the interceptor starts the span (or panics for
\* want of a peer), wraps the stream and calls the handler
StreamOpen ==
    /\ HookFree
    /\ \E ctx \in GrpcContexts, isClientStream \in BOOLEAN, isServerStream \in BOOLEAN :
         IF ~ctx.hasPeer
         THEN /\ spans' = <<>>
              /\ call' = [NoHookCall EXCEPT
                            !.kind = "streamSession", !.phase = "panicked",
                            !.in = [ctx |-> ctx, script |-> <<>>]]
         ELSE /\ spans' = << StreamSpan(ctx, "/user.User/Watch",
                                        isClientStream, isServerStream) >>
              /\ call' = [NoHookCall EXCEPT
                            !.kind = "streamSession", !.phase = "handler",
                            !.in = [ctx |-> ctx, script |-> <<>>],
                            !.ctxSpan = 1,
                            !.handlerCalls = 1,
                            !.stream =
                               [w   |-> wrappedServerStream(
                                           IncomingStream(ctx),
                                           ContextWithSpan(IncomingStream(ctx).ctx, 1)),
                                got |-> <<>>]]
    /\ UNCHANGED <<redisTrace, providers, exporters, tracerProviders, otelGlobals,
                   Provider, registryVars, gor, ret, lastCall, bodyRuns>>
    /\ UNCHANGED sideVars

\* the handler makes a call on its stream
StreamOp ==
    /\ call.kind = "streamSession" /\ call.phase = "handler"
    /\ Len(call.in.script) < MaxStreamOps
    /\ \E step \in StreamSteps :
         LET r == StreamOpOn(call.stream.w, step)
         IN  call' = [call EXCEPT !.in.script = Append(@, step),
                                  !.stream = [w   |-> r.w,
                                              got |-> Append(@.got, r.result)]]
    /\ UNCHANGED <<spans, redisTrace, providers, exporters, tracerProviders,
                   otelGlobals, Provider, registryVars, gor, ret, lastCall, bodyRuns>>
    /\ UNCHANGED sideVars

\* the handler returns or panics, and the interceptor finishes (lines
\* 121-135 and the deferred End)
StreamClose ==
    /\ call.kind = "streamSession" /\ call.phase = "handler"
    /\ \E outcome \in HandlerOutcomes :
         /\ outcome.resp = ""
         /\ spans' = IF outcome.panics THEN << End(spans[1]) >>
                     ELSE << End(RecordOutcome(spans[1], outcome.err)) >>
         /\ call' = [call EXCEPT
                       !.phase = IF outcome.panics THEN "panicked" ELSE "done",
                       !.err = outcome.err,
                       !.ret = IF outcome.panics THEN NoResult
                               ELSE [resp |-> "", err |-> outcome.err]]
    /\ UNCHANGED <<redisTrace, providers, exporters, tracerProviders, otelGlobals,
                   Provider, registryVars, gor, ret, lastCall, bodyRuns>>
    /\ UNCHANGED sideVars

(***************************************************************************)
(* The HTTP middleware (unnamed/part_000)                                  *)
(***************************************************************************)
\* what a handler does with its response writer, in order
HttpOps ==
    { [op |-> "WriteHeader", code |-> 404],
      [op |-> "WriteHeader", code |-> 500],
      [op |-> "Write", code |-> 0] }

RECURSIVE SeqsUpTo(_, _)
\* the sequences over S of length at most n
SeqsUpTo(S, n) ==
    IF n = 0 THEN { <<>> }
    ELSE LET shorter == SeqsUpTo(S, n - 1)
         IN  shorter \cup { Append(q, x) : q \in shorter, x \in S }

\* wrapResponseWriter, lines 84-86: the wrapper starts at http.StatusOK; sent
\* is the status line the underlying writer has put on the wire (0: none yet)
wrapResponseWriter == [statusCode |-> 200, sent |-> 0]

\* responseWriter.WriteHeader, lines 88-91; the underlying writer sends the
\* first status it is given and ignores the later ones
WriteHeader(rw, code) ==
    [statusCode |-> code, sent |-> IF rw.sent = 0 THEN code ELSE rw.sent]

\* Write is the embedded writer's: it sends 200 if no status was sent yet
\* and leaves the wrapper's statusCode alone
Write(rw) == [rw EXCEPT !.sent = IF @ = 0 THEN 200 ELSE @]

RECURSIVE ServeHTTP(_, _)
\* next.ServeHTTP(wrapped, r): the handler's calls on the writer, in order
ServeHTTP(rw, script) ==
    IF script = <<>> THEN rw
    ELSE ServeHTTP(IF Head(script).op = "WriteHeader"
                   THEN WriteHeader(rw, Head(script).code)
                   ELSE Write(rw),
                   Tail(script))

\* TraceMiddleware, lines 44-74
TraceMiddleware(method, path, script, panics) ==
    LET span == StartSpan("http." \o method \o "." \o path,
                          [k \in {"http.method", "http.url", "http.path"} |->
                             IF k = "http.method" THEN method ELSE path])
        wrapped == ServeHTTP(wrapResponseWriter, script)
    IN  IF panics
        THEN [spans |-> <<End(span)>>, handlerCalls |-> 1, panicked |-> TRUE,
              rw |-> wrapped]
        ELSE [spans |-> <<End(SetAttributes(span,
                              [k \in {"http.status_code", "http.duration"} |->
                                 IF k = "http.status_code"
                                 THEN wrapped.statusCode ELSE "d"]))>>,
              handlerCalls |-> 1, panicked |-> FALSE, rw |-> wrapped]

\* an HTTP request goes through TraceMiddleware
HttpCall ==
    /\ HookFree
    /\ \E script \in SeqsUpTo(HttpOps, MaxHttpOps), panics \in BOOLEAN :
         LET r == TraceMiddleware("GET", "/user/1", script, panics)
         IN  /\ spans' = r.spans
             /\ call' = [NoHookCall EXCEPT
                           !.kind = "http",
                           !.phase = IF r.panicked THEN "panicked" ELSE "done",
                           !.in = [script |-> script, rw |-> r.rw],
                           !.handlerCalls = r.handlerCalls]
    /\ UNCHANGED <<redisTrace, providers, exporters, tracerProviders, otelGlobals,
                   Provider, registryVars, gor, ret, lastCall, bodyRuns>>
    /\ UNCHANGED sideVars

(***************************************************************************)
(* otel_mysql.go: the GORM callbacks                                       *)
(***************************************************************************)
\* GormTracingHook.before, lines 67-80. db.Statement.Schema.Table is read for
\* the db.operation attribute whether or not the schema is nil, before
\* Tracer.Start is called.
before(schemaNil, table, sql) ==
    IF schemaNil
    THEN [spans |-> <<>>, ctxSpan |-> 0, panicked |-> TRUE]
    ELSE [spans |-> <<StartSpan("gorm." \o table,
                                [k \in {"db.system", "db.operation", "db.statement"} |->
                                   CASE k = "db.system" -> "mysql"
                                     [] k = "db.operation" -> table
                                     [] k = "db.statement" -> sql])>>,
          ctxSpan |-> 1, panicked |-> FALSE]

\* GormTracingHook.after, lines 83-91
after(ss, ctxSpan, dbError) ==
    IF ctxSpan = 0 THEN ss
    ELSE [ss EXCEPT ![ctxSpan] =
            End(IF dbError # NoError
                THEN SetStatus(RecordError(@, dbError), "Error", ErrorText(dbError))
                ELSE @)]

\* GORM runs the callback tracing:before_* of a statement
GormBefore ==
    /\ HookFree
    /\ \E schemaNil \in BOOLEAN :
         LET r == before(schemaNil, "users", "SELECT * FROM users")
         IN  /\ spans' = r.spans
             /\ call' = [NoHookCall EXCEPT
                           !.kind = "gorm",
                           !.phase = IF r.panicked THEN "panicked" ELSE "before",
                           !.in = [schemaNil |-> schemaNil],
                           !.ctxSpan = r.ctxSpan]
    /\ UNCHANGED <<redisTrace, providers, exporters, tracerProviders, otelGlobals,
                   Provider, registryVars, gor, ret, lastCall, bodyRuns>>
    /\ UNCHANGED sideVars

\* GORM's own callback (gorm:query, ...) runs the statement: it sets
\* db.Error or not, or it panics, and then no later callback runs
GormCore ==
    /\ call.kind = "gorm" /\ call.phase = "before"
    /\ \E outcome \in HandlerOutcomes :
         /\ outcome.resp = "" /\ outcome.err.kind # "status"
         /\ call' = [call EXCEPT
                       !.phase = IF outcome.panics THEN "panicked" ELSE "core",
                       !.err = outcome.err,
                       !.handlerCalls = @ + 1]
    /\ UNCHANGED <<spans, redisTrace, providers, exporters, tracerProviders,
                   otelGlobals, Provider, registryVars, gor, ret, lastCall, bodyRuns>>
    /\ UNCHANGED sideVars

\* GORM runs the callback tracing:after_* of the statement
GormAfter ==
    /\ call.kind = "gorm" /\ call.phase = "core"
    /\ spans' = after(spans, call.ctxSpan, call.err)
    /\ call' = [call EXCEPT !.phase = "done"]
    /\ UNCHANGED <<redisTrace, providers, exporters, tracerProviders, otelGlobals,
                   Provider, registryVars, gor, ret, lastCall, bodyRuns>>
    /\ UNCHANGED sideVars

(***************************************************************************)
(* otel_redis.go: the Redis hook                                           *)
(***************************************************************************)
\* the errors a Redis command can end with
CmdErrors == {NoError, RedisNilError, PlainError("conn refused"), PlainError("timeout")}

\* BeforeProcess, lines 38-47
BeforeProcess(cmdName, cmdString) ==
    [spans |-> <<StartSpan("redis." \o cmdName,
                           [k \in {"db.system", "db.operation", "db.statement"} |->
                              CASE k = "db.system" -> "redis"
                                [] k = "db.operation" -> cmdName
                                [] k = "db.statement" -> cmdString])>>,
     ctxSpan |-> 1, err |-> NoError]

\* a faulty AfterProcess: the span is ended first and the error recorded
\* afterwards
AfterProcessEndsFirst(ss, ctxSpan, cmdErr) ==
    IF ctxSpan = 0 THEN ss
    ELSE [ss EXCEPT ![ctxSpan] =
            IF cmdErr # NoError /\ cmdErr # RedisNilError
            THEN SetStatus(RecordError(End(@), cmdErr), "Error", ErrorText(cmdErr))
            ELSE End(@)]

\* AfterProcess, lines 50-59 (it returns nil)
AfterProcess(ss, ctxSpan, cmdErr) ==
    IF ctxSpan = 0 THEN ss
    ELSE [ss EXCEPT ![ctxSpan] =
            End(IF cmdErr # NoError /\ cmdErr # RedisNilError
                THEN SetStatus(RecordError(@, cmdErr), "Error", ErrorText(cmdErr))
                ELSE @)]

\* BeforeProcessPipeline, lines 62-70
BeforeProcessPipeline(numCmds) ==
    [spans |-> <<StartSpan("redis.pipeline",
                           [k \in {"db.system", "db.operation", "db.redis.num_cmd"} |->
                              CASE k = "db.system" -> "redis"
                                [] k = "db.operation" -> "pipeline"
                                [] k = "db.redis.num_cmd" -> numCmds])>>,
     ctxSpan |-> 1, err |-> NoError]

\* a faulty FirstFailure: the loop does not stop at the first failed
\* command, so the last one's error stays
LastFailure(cmdErrs) ==
    LET failed == { i \in 1..Len(cmdErrs) :
                      cmdErrs[i] # NoError /\ cmdErrs[i] # RedisNilError }
    IN  IF failed = {} THEN NoError
        ELSE cmdErrs[CHOOSE i \in failed : \A j \in failed : j <= i]

RECURSIVE FirstFailure(_)
\* lines 76-82: the error of the first command whose error is neither nil
\* nor redis.Nil (NoError if there is none)
FirstFailure(cmdErrs) ==
    IF cmdErrs = <<>> THEN NoError
    ELSE IF Head(cmdErrs) # NoError /\ Head(cmdErrs) # RedisNilError
         THEN Head(cmdErrs)
         ELSE FirstFailure(Tail(cmdErrs))

\* AfterProcessPipeline, lines 73-85 (it returns nil)
AfterProcessPipeline(ss, ctxSpan, cmdErrs) ==
    IF ctxSpan = 0 THEN ss
    ELSE [ss EXCEPT ![ctxSpan] =
            End(IF FirstFailure(cmdErrs) # NoError
                THEN SetStatus(RecordError(@, FirstFailure(cmdErrs)), "Error",
                               ErrorText(FirstFailure(cmdErrs)))
                ELSE @)]

\* a caller of the hook pair runs BeforeProcess for a command
RedisBeforeProcess ==
    /\ HookFree
    /\ LET r == BeforeProcess("get", "get test_key")
       IN  /\ spans' = r.spans
           /\ call' = [NoHookCall EXCEPT !.kind = "redis", !.phase = "before",
                                         !.in = [numCmds |-> 1, cmdErrs |-> <<>>],
                                         !.ctxSpan = r.ctxSpan]
    /\ UNCHANGED <<redisTrace, providers, exporters, tracerProviders, otelGlobals,
                   Provider, registryVars, gor, ret, lastCall, bodyRuns>>
    /\ UNCHANGED sideVars

\* the command runs: cmd.Err() is set, or the call panics
RedisCmd ==
    /\ call.kind = "redis" /\ call.phase = "before"
    /\ \/ \E cmdErr \in CmdErrors :
            call' = [call EXCEPT !.phase = "core", !.err = cmdErr,
                                 !.in.cmdErrs = <<cmdErr>>,
                                 !.handlerCalls = @ + 1]
       \/ call' = [call EXCEPT !.phase = "panicked", !.handlerCalls = @ + 1]
    /\ UNCHANGED <<spans, redisTrace, providers, exporters, tracerProviders,
                   otelGlobals, Provider, registryVars, gor, ret, lastCall, bodyRuns>>
    /\ UNCHANGED sideVars

\* the caller of the hook pair runs AfterProcess for the command
RedisAfterProcess ==
    /\ call.kind = "redis" /\ call.phase = "core"
    /\ spans' = AfterProcess(spans, call.ctxSpan, call.err)
    /\ call' = [call EXCEPT !.phase = "done"]
    /\ UNCHANGED <<redisTrace, providers, exporters, tracerProviders, otelGlobals,
                   Provider, registryVars, gor, ret, lastCall, bodyRuns>>
    /\ UNCHANGED sideVars

\* a caller of the hook pair runs BeforeProcessPipeline for numCmds commands
RedisBeforeProcessPipeline ==
    /\ HookFree
    /\ \E numCmds \in 0..MaxCmds :
         LET r == BeforeProcessPipeline(numCmds)
         IN  /\ spans' = r.spans
             /\ call' = [NoHookCall EXCEPT !.kind = "pipeline", !.phase = "before",
                                           !.in = [numCmds |-> numCmds, cmdErrs |-> <<>>],
                                           !.ctxSpan = r.ctxSpan]
    /\ UNCHANGED <<redisTrace, providers, exporters, tracerProviders, otelGlobals,
                   Provider, registryVars, gor, ret, lastCall, bodyRuns>>
    /\ UNCHANGED sideVars

\* the pipeline runs: every command gets its error, or the call panics
RedisPipelineExec ==
    /\ call.kind = "pipeline" /\ call.phase = "before"
    /\ \/ \E cmdErrs \in SeqsUpTo(CmdErrors, MaxCmds) :
            /\ Len(cmdErrs) = call.in.numCmds
            /\ call' = [call EXCEPT !.phase = "core",
                                    !.err = FirstFailure(cmdErrs),
                                    !.in.cmdErrs = cmdErrs,
                                    !.handlerCalls = @ + 1]
       \/ call' = [call EXCEPT !.phase = "panicked", !.handlerCalls = @ + 1]
    /\ UNCHANGED <<spans, redisTrace, providers, exporters, tracerProviders,
                   otelGlobals, Provider, registryVars, gor, ret, lastCall, bodyRuns>>
    /\ UNCHANGED sideVars

\* the caller of the hook pair runs AfterProcessPipeline
RedisAfterProcessPipeline ==
    /\ call.kind = "pipeline" /\ call.phase = "core"
    /\ spans' = AfterProcessPipeline(spans, call.ctxSpan, call.in.cmdErrs)
    /\ call' = [call EXCEPT !.phase = "done",
                            !.ret = [resp |-> "", err |-> NoError]]
    /\ UNCHANGED <<redisTrace, providers, exporters, tracerProviders, otelGlobals,
                   Provider, registryVars, gor, ret, lastCall, bodyRuns>>
    /\ UNCHANGED sideVars

(***************************************************************************)
(* The hook installed on a go-redis v9 client. In v9 a hook is the three   *)
(* wrappers DialHook, ProcessHook and ProcessPipelineHook: AddHook wraps   *)
(* the client's process function in hook.ProcessHook and its pipeline      *)
(* function in hook.ProcessPipelineHook, and a command runs whatever the   *)
(* wrapped function is. A function is modelled as the sequence of the      *)
(* stages it goes through.                                                 *)
(***************************************************************************)
\* the client's own functions, before any hook
baseProcess == <<"process">>
baseProcessPipeline == <<"processPipeline">>

\* RedisHook.ProcessHook, lines 93-95
ProcessHook(next) == next

\* RedisHook.ProcessPipelineHook, lines 98-100
ProcessPipelineHook(next) == next

RECURSIVE RunChain(_, _, _)
\* the client runs the stages of a wrapped function for the commands whose
\* errors are cmdErrs; st is the spans, the context's span and the error
RunChain(chain, st, cmdErrs) ==
    IF chain = <<>> THEN st
    ELSE LET stage == Head(chain)
             nxt ==
               CASE stage = "BeforeProcess" ->
                      [st EXCEPT !.spans = BeforeProcess("get", "get test_key").spans,
                                 !.ctxSpan = 1]
                 [] stage = "AfterProcess" ->
                      [st EXCEPT !.spans = AfterProcess(@, st.ctxSpan, st.err)]
                 [] stage = "BeforeProcessPipeline" ->
                      [st EXCEPT !.spans = BeforeProcessPipeline(Len(cmdErrs)).spans,
                                 !.ctxSpan = 1]
                 [] stage = "AfterProcessPipeline" ->
                      [st EXCEPT !.spans = AfterProcessPipeline(@, st.ctxSpan, cmdErrs)]
                 [] stage = "process" -> [st EXCEPT !.err = cmdErrs[1]]
                 [] stage = "processPipeline" ->
                      [st EXCEPT !.err = FirstFailure(cmdErrs)]
         IN  RunChain(Tail(chain), nxt, cmdErrs)

\* rdb.AddHook(&RedisHook{...}) (example/redis/main.go, lines 55-57), then a
\* command through the client
RedisClientProcess ==
    /\ HookFree
    /\ \E cmdErr \in CmdErrors :
         LET chain == ProcessHook(baseProcess)
             r == RunChain(chain, [spans |-> <<>>, ctxSpan |-> 0, err |-> NoError],
                           <<cmdErr>>)
         IN  /\ spans' = r.spans
             /\ redisTrace' = chain
             /\ call' = [NoHookCall EXCEPT
                           !.kind = "redisClient", !.phase = "done",
                           !.in = [numCmds |-> 1, cmdErrs |-> <<cmdErr>>],
                           !.err = r.err, !.ctxSpan = r.ctxSpan,
                           !.handlerCalls = 1]
    /\ UNCHANGED <<providers, exporters, tracerProviders, otelGlobals, Provider,
                   registryVars, gor, ret, lastCall, bodyRuns>>
    /\ UNCHANGED sideVars

\* a pipeline through the client the hook is installed on
RedisClientPipeline ==
    /\ HookFree
    /\ \E cmdErrs \in SeqsUpTo(CmdErrors, MaxCmds) :
         LET chain == ProcessPipelineHook(baseProcessPipeline)
             r == RunChain(chain, [spans |-> <<>>, ctxSpan |-> 0, err |-> NoError],
                           cmdErrs)
         IN  /\ spans' = r.spans
             /\ redisTrace' = chain
             /\ call' = [NoHookCall EXCEPT
                           !.kind = "redisClientPipeline", !.phase = "done",
                           !.in = [numCmds |-> Len(cmdErrs), cmdErrs |-> cmdErrs],
                           !.err = r.err, !.ctxSpan = r.ctxSpan,
                           !.handlerCalls = 1]
    /\ UNCHANGED <<providers, exporters, tracerProviders, otelGlobals, Provider,
                   registryVars, gor, ret, lastCall, bodyRuns>>
    /\ UNCHANGED sideVars

(***************************************************************************)
(* GormTracingHook.Initialize and GORM's callback chains. Each operation   *)
(* kind has a chain of named callbacks that GORM runs in order for every   *)
(* statement of the kind; Before(anchor).Register puts a callback right    *)
(* in front of the anchor, After(anchor).Register behind the anchor, at    *)
(* the end of the chain. A callback is its name and the function it runs.  *)
(***************************************************************************)
GormKinds == {"create", "query", "delete", "update", "row", "raw"}

\* GORM's own callback, which runs the statement
GormOwn(name, fn) == [name |-> name, fn |-> fn]

\* the chains gorm.Open sets up (the core callback gorm:<kind> and its
\* neighbours)
GormDefaultCallbacks ==
    [kind \in GormKinds |->
       CASE kind \in {"create", "delete", "update"} ->
              << GormOwn("gorm:begin_transaction", "gorm"),
                 GormOwn("gorm:before_" \o kind, "gorm"),
                 GormOwn("gorm:" \o kind, "core"),
                 GormOwn("gorm:after_" \o kind, "gorm"),
                 GormOwn("gorm:commit_or_rollback_transaction", "gorm") >>
         [] kind = "query" ->
              << GormOwn("gorm:query", "core"),
                 GormOwn("gorm:preload", "gorm"),
                 GormOwn("gorm:after_query", "gorm") >>
         [] OTHER -> << GormOwn("gorm:" \o kind, "core") >>]

\* the position of the callback called name in a chain (0: not there)
IndexOf(chain, name) ==
    IF \E i \in 1..Len(chain) : chain[i].name = name
    THEN CHOOSE i \in 1..Len(chain) : chain[i].name = name
    ELSE 0

\* chain with cb put in front of position i
InsertAt(chain, i, cb) ==
    SubSeq(chain, 1, i - 1) \o <<cb>> \o SubSeq(chain, i, Len(chain))

\* db.Callback().<Kind>().Before(anchor).Register(name, fn) and
\* ...After(anchor).Register(name, fn); without the anchor the callback goes
\* to the end of the chain
Register(chain, position, anchor, name, fn) ==
    LET at == IndexOf(chain, anchor)
        cb == [name |-> name, fn |-> fn]
    IN  IF at # 0 /\ position = "Before"
        THEN InsertAt(chain, at, cb)
        ELSE Append(chain, cb)

\* a faulty Initialize: the after callbacks are registered before the core
InitializeAfterFirst(cbs) ==
    [callbacks |->
        [kind \in GormKinds |->
           Register(Register(cbs[kind], "Before", "gorm:" \o kind,
                             "tracing:before_" \o kind, "before"),
                    "Before", "tracing:before_" \o kind,
                    "tracing:after_" \o kind, "after")],
     err |-> NoError]

\* GormTracingHook.Initialize, lines 47-64: six Before registrations, then
\* six After registrations; the registrations' errors are dropped and nil
\* is returned. (A registration touches the chain of its kind only, so the
\* chains are given kind by kind.)
Initialize(cbs) ==
    [callbacks |->
        [kind \in GormKinds |->
           Register(Register(cbs[kind], "Before", "gorm:" \o kind,
                             "tracing:before_" \o kind, "before"),
                    "After", "gorm:" \o kind,
                    "tracing:after_" \o kind, "after")],
     err |-> NoError]

\* db.Use(&GormTracingHook{...}): GORM calls Initialize once for a plugin
GormUse ==
    /\ HookFree
    /\ callbacks = GormDefaultCallbacks
    /\ LET r == Initialize(callbacks)
       IN  /\ callbacks' = r.callbacks
           /\ call' = [NoHookCall EXCEPT !.kind = "gormUse", !.phase = "done",
                                         !.ret = [resp |-> "", err |-> r.err]]
    /\ spans' = <<>>
    /\ UNCHANGED <<redisTrace, providers, exporters, tracerProviders, otelGlobals,
                   Provider, registryVars, gor, ret, lastCall, bodyRuns>>
    /\ UNCHANGED <<osEnv, mapAccess>>

RECURSIVE RunCallbacks(_, _, _, _)
\* GORM runs the callbacks of a chain in order for one statement; a panic
\* ends the run. st is the spans, the span in the statement's context,
\* db.Error, the functions run so far, and whether the run panicked.
RunCallbacks(chain, st, schemaNil, outcome) ==
    IF chain = <<>> \/ st.panicked THEN st
    ELSE LET fn == Head(chain).fn
             nxt ==
               CASE fn = "before" ->
                      LET r == before(schemaNil, "users", "SELECT * FROM users")
                      IN  [st EXCEPT !.spans = r.spans, !.ctxSpan = r.ctxSpan,
                                     !.panicked = r.panicked,
                                     !.trace = Append(@, "before")]
                 [] fn = "core" ->
                      [st EXCEPT !.err = outcome.err,
                                 !.panicked = outcome.panics,
                                 !.trace = Append(@, "core")]
                 [] fn = "after" ->
                      [st EXCEPT !.spans = after(@, st.ctxSpan, st.err),
                                 !.trace = Append(@, "after")]
                 [] OTHER -> st
         IN  RunCallbacks(Tail(chain), nxt, schemaNil, outcome)

\* a statement of some kind is executed on the db
GormExecute ==
    /\ HookFree
    /\ \E kind \in GormKinds, schemaNil \in BOOLEAN, outcome \in HandlerOutcomes :
         /\ outcome.resp = "" /\ outcome.err.kind # "status"
         /\ LET r == RunCallbacks(callbacks[kind],
                                  [spans |-> <<>>, ctxSpan |-> 0, err |-> NoError,
                                   trace |-> <<>>, panicked |-> FALSE],
                                  schemaNil, outcome)
            IN  /\ spans' = r.spans
                /\ call' = [NoHookCall EXCEPT
                              !.kind = "gormExec",
                              !.phase = IF r.panicked THEN "panicked" ELSE "done",
                              !.in = [kind |-> kind, schemaNil |-> schemaNil,
                                      outcome |-> outcome],
                              !.err = r.err, !.ctxSpan = r.ctxSpan,
                              !.handlerCalls =
                                 IF \E i \in 1..Len(r.trace) : r.trace[i] = "core"
                                 THEN 1 ELSE 0,
                              !.trace = r.trace]
    /\ UNCHANGED <<redisTrace, providers, exporters, tracerProviders, otelGlobals,
                   Provider, registryVars, gor, ret, lastCall, bodyRuns>>
    /\ UNCHANGED sideVars

(***************************************************************************)
(* The registry called from several goroutines. tracerRegistry is a plain  *)
(* Go map and RegisterTracer and GetTracer take no lock, so a goroutine's  *)
(* map read (lines 124 and 131) and map write (line 127) are steps with a  *)
(* beginning and an end that other goroutines' accesses can fall into.     *)
(* An access that overlaps a write is a data race: the Go runtime may stop *)
(* the process ("fatal error: concurrent map read and map write" /         *)
(* "concurrent map writes"), the access may go through, a read may see a   *)
(* half-written entry, and a write may be lost.                            *)
(***************************************************************************)
\* pc: idle, read (before the map read), reading, write (before the map
\* write), writing, crashed; op, name, tracer: the call and its arguments;
\* exists, val: what the map read gave and what GetTracer returned; raced:
\* the current access overlapped a write; panicked: the call panicked
AccessIdle == [pc |-> "idle", op |-> "none", name |-> "", tracer |-> NoTracer,
               exists |-> FALSE, val |-> NoTracer, raced |-> FALSE,
               panicked |-> FALSE]

InAccess(g) == mapAccess[g].pc \in {"reading", "writing"}

\* the goroutines whose access is under way and conflicts with an access of
\* kind pc by g
Conflicting(g, pc) ==
    { h \in Goroutines \ {g} :
        /\ InAccess(h)
        /\ pc = "writing" \/ mapAccess[h].pc = "writing" }

\* goroutine g calls RegisterTracer(name, tracer)
ConcurrentRegisterTracer(g) ==
    /\ mapAccess[g].pc = "idle"
    /\ \E name \in RegistryNames, tracer \in CallerTracers :
         mapAccess' = [mapAccess EXCEPT ![g] =
                          [AccessIdle EXCEPT !.pc = "read", !.op = "RegisterTracer",
                                             !.name = name, !.tracer = tracer]]
    /\ UNCHANGED <<providers, exporters, tracerProviders, otelGlobals, Provider,
                   registryVars, gor, ret, lastCall, bodyRuns>>
    /\ UNCHANGED hookVars
    /\ UNCHANGED <<osEnv, callbacks>>

\* goroutine g calls GetTracer(name)
ConcurrentGetTracer(g) ==
    /\ mapAccess[g].pc = "idle"
    /\ \E name \in RegistryNames :
         mapAccess' = [mapAccess EXCEPT ![g] =
                          [AccessIdle EXCEPT !.pc = "read", !.op = "GetTracer",
                                             !.name = name]]
    /\ UNCHANGED <<providers, exporters, tracerProviders, otelGlobals, Provider,
                   registryVars, gor, ret, lastCall, bodyRuns>>
    /\ UNCHANGED hookVars
    /\ UNCHANGED <<osEnv, callbacks>>

\* an access of kind pc by g begins; it and the accesses it conflicts with
\* are marked as raced
BeginAccess(g, pc) ==
    mapAccess' = [h \in Goroutines |->
                    IF h = g
                    THEN [mapAccess[g] EXCEPT !.pc = pc,
                                              !.raced = Conflicting(g, pc) # {}]
                    ELSE IF h \in Conflicting(g, pc)
                    THEN [mapAccess[h] EXCEPT !.raced = TRUE]
                    ELSE mapAccess[h]]

\* the runtime stops the process
Crashed == [g \in Goroutines |-> [mapAccess[g] EXCEPT !.pc = "crashed"]]

\* lines 124 and 131: the lookup tracerRegistry[name] begins
MapReadStart(g) ==
    /\ mapAccess[g].pc = "read"
    /\ BeginAccess(g, "reading")
    /\ UNCHANGED <<providers, exporters, tracerProviders, otelGlobals, Provider,
                   registryVars, gor, ret, lastCall, bodyRuns>>
    /\ UNCHANGED hookVars
    /\ UNCHANGED <<osEnv, callbacks>>

\* what a call does with the outcome [exists, val] of its lookup:
\* RegisterTracer logs an existing name (lines 124-126) and goes on to the
\* write; GetTracer returns the tracer found (lines 131-133) or
\* Provider.Tracer("default") (line 135)
AfterLookup(g, exists, val) ==
    IF mapAccess[g].op = "RegisterTracer"
    THEN /\ mapAccess' = [mapAccess EXCEPT ![g].pc = "write",
                                           ![g].exists = exists,
                                           ![g].raced = FALSE]
         /\ registryLog' = IF exists THEN registryLog \cup {mapAccess[g].name}
                           ELSE registryLog
    ELSE /\ mapAccess' = [mapAccess EXCEPT
                            ![g].pc = "idle",
                            ![g].exists = exists,
                            ![g].raced = FALSE,
                            ![g].val = IF exists THEN val
                                       ELSE Tracer(Provider, "default").val,
                            ![g].panicked = IF exists THEN FALSE
                                            ELSE Tracer(Provider, "default").panicked]
         /\ UNCHANGED registryLog

\* the lookup ends. A lookup that raced with a write has any of the
\* outcomes: the process is stopped, the entry is seen as it is in the map,
\* or a half-written entry is seen (the name, with no tracer yet).
MapReadEnd(g) ==
    /\ mapAccess[g].pc = "reading"
    /\ \/ AfterLookup(g, mapAccess[g].name \in DOMAIN tracerRegistry,
                      IF mapAccess[g].name \in DOMAIN tracerRegistry
                      THEN tracerRegistry[mapAccess[g].name] ELSE NoTracer)
       \/ /\ mapAccess[g].raced
          /\ AfterLookup(g, TRUE, NoTracer)
       \/ /\ mapAccess[g].raced
          /\ mapAccess' = Crashed
          /\ UNCHANGED registryLog
    /\ UNCHANGED <<providers, exporters, tracerProviders, otelGlobals, Provider,
                   tracerRegistry, lastRegistered, everRegistered,
                   gor, ret, lastCall, bodyRuns>>
    /\ UNCHANGED hookVars
    /\ UNCHANGED <<osEnv, callbacks>>

\* line 127: the assignment tracerRegistry[name] = tracer begins
MapWriteStart(g) ==
    /\ mapAccess[g].pc = "write"
    /\ BeginAccess(g, "writing")
    /\ everRegistered' = everRegistered \cup {<<mapAccess[g].name, mapAccess[g].tracer>>}
    /\ UNCHANGED <<providers, exporters, tracerProviders, otelGlobals, Provider,
                   tracerRegistry, lastRegistered, registryLog,
                   gor, ret, lastCall, bodyRuns>>
    /\ UNCHANGED hookVars
    /\ UNCHANGED <<osEnv, callbacks>>

\* the assignment ends and RegisterTracer returns. A write that raced has
\* any of the outcomes: the process is stopped, the entry is stored, or the
\* entry is lost.
MapWriteEnd(g) ==
    /\ mapAccess[g].pc = "writing"
    /\ \/ /\ tracerRegistry' = RegistryPut(tracerRegistry, mapAccess[g].name,
                                           mapAccess[g].tracer)
          /\ lastRegistered' = RegistryPut(lastRegistered, mapAccess[g].name,
                                           mapAccess[g].tracer)
          /\ mapAccess' = [mapAccess EXCEPT ![g].pc = "idle", ![g].raced = FALSE]
       \/ /\ mapAccess[g].raced
          /\ mapAccess' = [mapAccess EXCEPT ![g].pc = "idle", ![g].raced = FALSE]
          /\ UNCHANGED <<tracerRegistry, lastRegistered>>
       \/ /\ mapAccess[g].raced
          /\ mapAccess' = Crashed
          /\ UNCHANGED <<tracerRegistry, lastRegistered>>
    /\ UNCHANGED <<providers, exporters, tracerProviders, otelGlobals, Provider,
                   registryLog, everRegistered, gor, ret, lastCall, bodyRuns>>
    /\ UNCHANGED hookVars
    /\ UNCHANGED <<osEnv, callbacks>>

(***************************************************************************)
(* The provider specification                                              *)
(***************************************************************************)
HookInit ==
    /\ call = NoHookCall
    /\ spans = <<>>
    /\ redisTrace = <<>>

\* the process before any call into the package
ProgramInit ==
    /\ providers = <<ZeroProvider>>
    /\ exporters = <<>>
    /\ tracerProviders = <<>>
    /\ globalTracerProvider = Nil
    /\ globalPropagator = "none"
    /\ Provider = Nil
    /\ tracerRegistry = <<>>
    /\ gor = [g \in Goroutines |-> Idle]
    /\ ret = [g \in Goroutines |-> NoReturn]
    /\ lastCall = NoCall
    /\ bodyRuns = 0
    /\ lastRegistered = <<>>
    /\ registryLog = {}
    /\ everRegistered = {}
    /\ callbacks = GormDefaultCallbacks
    /\ mapAccess = [g \in Goroutines |-> AccessIdle]
    /\ HookInit

Init ==
    /\ ProgramInit
    /\ osEnv = NoEnv

\* one step of a NewOTelProvider call by goroutine g
NewOTelProviderStep(g) ==
    \/ NewOTelProvider_Begin(g)
    \/ OnceDo(g)
    \/ CreateExporterStep(g)
    \/ CreateTracerProviderStep(g)
    \/ SetTracerProviderStep(g)
    \/ SetTextMapPropagatorStep(g)
    \/ NewOTelProvider_Return(g)

\* concurrent construction: every goroutine calls NewOTelProvider
Next == \E g \in Goroutines : NewOTelProviderStep(g)

Spec == Init /\ [][Next]_vars

\* the registry used by one caller after the other, beside a goroutine
\* that calls NewOTelProvider
RegistryNext ==
    \/ NewOTelProviderStep(1)
    \/ RegisterTracer
    \/ GetTracer

RegistrySpec == Init /\ [][RegistryNext]_vars

\* providers built by one goroutine and shut down by their callers
ShutdownNext ==
    \/ NewOTelProviderStep(1)
    \/ ShutdownCall

ShutdownSpec == Init /\ [][ShutdownNext]_vars

(***************************************************************************)
(* The hook specification: one intercepted call at a time                  *)
(***************************************************************************)
HookNext ==
    \/ UnaryCall
    \/ StreamCall
    \/ HttpCall
    \/ GormBefore
    \/ GormCore
    \/ GormAfter
    \/ RedisBeforeProcess
    \/ RedisCmd
    \/ RedisAfterProcess
    \/ RedisBeforeProcessPipeline
    \/ RedisPipelineExec
    \/ RedisAfterProcessPipeline
    \/ RedisClientProcess
    \/ RedisClientPipeline
    \/ GormUse
    \/ GormExecute

HookSpec == Init /\ [][HookNext]_vars

\* streaming RPCs whose handlers use the stream, one at a time
StreamNext ==
    \/ StreamOpen
    \/ StreamOp
    \/ StreamClose

StreamSpec == Init /\ [][StreamNext]_vars

\* the registry called from every goroutine at once
RaceNext ==
    \E g \in Goroutines :
        \/ ConcurrentRegisterTracer(g)
        \/ ConcurrentGetTracer(g)
        \/ MapReadStart(g)
        \/ MapReadEnd(g)
        \/ MapWriteStart(g)
        \/ MapWriteEnd(g)

RaceSpec == Init /\ [][RaceNext]_vars

(***************************************************************************)
(* The configuration specification: one NewOTelProvider call, for every    *)
(* option list of up to MaxOptions options and every process environment   *)
(***************************************************************************)
\* the options a caller passes
ConfigOptions ==
    { WithServiceName("billing"), WithServiceName("orders"),
      WithServiceVersion("2.1.0"), WithEnvironment("production"),
      WithEndpoint(""), WithEndpoint("collector:4318"),
      WithInsecure(FALSE),
      WithExportProtocol(ProtocolHTTP), WithExportProtocol(ProtocolJSON),
      WithTimeout(10), WithSamplingRatio(5), WithBatchTimeout(1),
      WithExportTimeout(10), WithMaxExportBatchSize(64), WithMaxQueueSize(128) }

ConfigOptionLists == SeqsUpTo(ConfigOptions, MaxOptions)

\* the environments the process is started in
Environments ==
    { NoEnv,
      [k \in {"OTEL_SERVICE_NAME"} |-> "billing-env"],
      [k \in {"OTEL_PROTOCOL", "OTEL_ENDPOINT"} |->
         IF k = "OTEL_PROTOCOL" THEN "http" ELSE "otel-collector:4318"],
      [k \in {"OTEL_INSECURE", "OTEL_SAMPLING_RATIO"} |->
         IF k = "OTEL_INSECURE" THEN "false" ELSE "0.5"] }

ConfigInit ==
    /\ ProgramInit
    /\ osEnv \in Environments

\* the process's one NewOTelProvider call
ConfiguredCall ==
    /\ Len(providers) = 1
    /\ NewOTelProvider_Call(1, ConfigOptionLists)

ConfigNext ==
    \/ ConfiguredCall
    \/ OnceDo(1)
    \/ CreateExporterStep(1)
    \/ CreateTracerProviderStep(1)
    \/ SetTracerProviderStep(1)
    \/ SetTextMapPropagatorStep(1)
    \/ NewOTelProvider_Return(1)

ConfigSpec == ConfigInit /\ [][ConfigNext]_vars

(***************************************************************************)
(* Properties                                                              *)
(***************************************************************************)
\* how often End was called on a span
EndCount(span) == Cardinality({ i \in 1..Len(span.log) : span.log[i] = "End" })

\* the hook invocation of the current call is over (it returned or panicked)
HookOver ==
    /\ call.kind \in {"unary", "stream", "http", "gorm", "redis", "pipeline"}
    /\ call.phase \in {"done", "panicked"}

\* C1: every invocation of an interception hook starts exactly one span and
\* ends it exactly once, also when the wrapped call fails or panics.
C1_OneSpanStartedAndEnded ==
    HookOver => Len(spans) = 1 /\ EndCount(spans[1]) = 1

\* C2: in the gRPC interceptors, GormTracingHook.after, AfterProcess and
\* AfterProcessPipeline, a span is ended with status Error and the error's
\* message if the wrapped call failed and with status Ok if it succeeded.
C2_StatusSetAtEnd ==
    /\ call.kind \in {"unary", "stream", "gorm", "redis", "pipeline"}
    /\ call.phase = "done"
    => \A i \in 1..Len(spans) :
         EndCount(spans[i]) > 0 =>
            IF call.err # NoError
            THEN spans[i].status = [code |-> "Error", msg |-> StatusMessage(call.err)]
            ELSE spans[i].status.code = "Ok"

\* C3: whenever the wrapped handler returns, the unary interceptor returns
\* the handler's (response, error) pair and the stream interceptor the
\* handler's error, unchanged, whatever was recorded on the span.
C3_HandlerResultPassedThrough ==
    /\ call.kind \in {"unary", "stream"}
    /\ call.handlerCalls = 1
    /\ ~call.in.outcome.panics
    => /\ call.phase = "done"
       /\ call.ret.err = call.in.outcome.err
       /\ call.kind = "unary" => call.ret.resp = call.in.outcome.resp

\* a unary call whose handler failed with a gRPC status error: the span
\* carries the error and the caller gets the error itself
C3_Witness ==
    /\ call.kind = "unary" /\ call.phase = "done"
    /\ call.in.outcome.err = StatusError("NotFound", "not found")
    /\ call.in.outcome.resp = "reply"
    /\ call.ret.err = StatusError("NotFound", "not found")
    /\ Len(spans) = 1 /\ spans[1].status = [code |-> "Error", msg |-> "not found"]

\* goroutine g's latest NewOTelProvider call has returned
Returned(g) == gor[g].pc = "idle" /\ ret[g].op = "NewOTelProvider"

\* C4: after any sequence of NewOTelProvider calls every call has returned
\* the same tracer-provider instance (the first one built) and one exporter
\* has been created in total.
C4_ConstructionIdempotent ==
    /\ Len(exporters) <= 1
    /\ \A g \in Goroutines :
         Returned(g) /\ ret[g].err = NoError =>
            providers[ret[g].p].tracerProvider = 1

\* C5: under every interleaving of NewOTelProvider calls the construction
\* body runs at most once, and all callers get the same provider instance.
C5_BodyRunsAtMostOnce ==
    /\ bodyRuns <= 1
    /\ \A g, h \in Goroutines :
         Returned(g) /\ Returned(h) /\ ret[g].err = NoError /\ ret[h].err = NoError
            => ret[g].p = ret[h].p

\* C6: GetTracer of a name that is not registered returns the tracer named
\* "default" of the Provider singleton and does not panic.
C6_FallbackTracer ==
    lastCall.op = "GetTracer" /\ lastCall.name \notin DOMAIN tracerRegistry
        => ~lastCall.panicked /\ lastCall.val.name = "default"

\* C7: a command run through the client the hook is installed on goes
\* through BeforeProcess, the command and AfterProcess, once each and in
\* this order, and yields a span; likewise a pipeline.
C7_ClientRunsHookPair ==
    /\ call.kind = "redisClient" =>
         redisTrace = <<"BeforeProcess", "process", "AfterProcess">> /\ Len(spans) = 1
    /\ call.kind = "redisClientPipeline" =>
         /\ redisTrace = <<"BeforeProcessPipeline", "processPipeline",
                           "AfterProcessPipeline">>
         /\ Len(spans) = 1

\* C8: a NewOTelProvider call whose exporter cannot be built (an unsupported
\* protocol, or the exporter's constructor failing) returns an error; a call
\* that returns an error returns a nil provider and a nil shutdown function
\* and has assigned neither the global tracer provider nor the propagator.
C8_FailedConstruction ==
    \A g \in Goroutines :
        Returned(g) =>
           /\ providers[gor[g].p].opts.protocol \notin
                 {ProtocolGRPC, ProtocolHTTP, ProtocolJSON} => ret[g].err # NoError
           /\ gor[g].exporter = Nil => ret[g].err # NoError
           /\ ret[g].err # NoError =>
                 /\ ret[g].p = Nil
                 /\ ret[g].shutdown = Nil
                 /\ ~gor[g].wroteGlobals

\* a call with an unsupported protocol has failed after another call had
\* installed its tracer provider, which is still the global one
C8_Witness ==
    \E g \in Goroutines :
        /\ Returned(g)
        /\ providers[gor[g].p].opts.protocol = "kafka"
        /\ ret[g].err = PlainError("setup provider failed: create exporter failed: "
                                   \o "unsupported protocol: kafka")
        /\ ret[g].p = Nil
        /\ globalTracerProvider # Nil
        /\ globalPropagator = "tracecontext,baggage"

\* C9: Shutdown on a provider whose tracerProvider is nil returns nil, does
\* not panic, calls nothing on the SDK and changes nothing.
C9_ShutdownUninitialized ==
    [][ (/\ ShutdownCall
         /\ lastCall'.p # Nil
         /\ providers[lastCall'.p].tracerProvider = Nil)
        => /\ lastCall'.err = NoError
           /\ ~lastCall'.panicked
           /\ UNCHANGED <<providers, exporters, tracerProviders, otelGlobals,
                          Provider, registryVars, gor, ret, bodyRuns>> ]_vars

\* Shutdown of the zero-value provider has returned nil while a tracer
\* provider built by NewOTelProvider is running
C9_Witness ==
    /\ lastCall = [NoCall EXCEPT !.op = "Shutdown", !.p = 1]
    /\ Len(tracerProviders) > 0
    /\ \A t \in 1..Len(tracerProviders) : ~tracerProviders[t].shutdown

\* C10: GetTracer of a registered name returns the tracer of the latest
\* RegisterTracer of that name; registering a registered name overwrites
\* without failing; a name once registered stays registered.
C10_LastWriterWins ==
    /\ DOMAIN tracerRegistry = DOMAIN lastRegistered
    /\ \A n \in DOMAIN lastRegistered :
         GetTracerResult(n) = [val |-> lastRegistered[n], panicked |-> FALSE]
    /\ lastCall.op = "GetTracer" /\ lastCall.name \in DOMAIN lastRegistered
         => ~lastCall.panicked /\ lastCall.val = lastRegistered[lastCall.name]
    /\ lastCall.op = "RegisterTracer"
         => ~lastCall.panicked /\ tracerRegistry[lastCall.name] = lastCall.val

\* a name registered twice, with the second tracer returned by GetTracer
\* and the other name still registered
C10_Witness ==
    /\ lastCall.op = "GetTracer"
    /\ lastCall.name \in registryLog
    /\ lastCall.val = [tp |-> Nil, name |-> "server"]
    /\ DOMAIN tracerRegistry = RegistryNames

\* the positions of the options of a list that set a field
Setters(opts, field) == { i \in 1..Len(opts) : opts[i].field = field }

\* the last of a non-empty set of positions
Last(positions) == CHOOSE i \in positions : \A j \in positions : j <= i

\* the settings of goroutine g's latest NewOTelProvider call
Settings(g) == providers[gor[g].p].opts

EndpointSupplied(g) ==
    /\ Setters(gor[g].opts, "endpoint") # {}
    /\ Settings(g).endpoint # ""

\* C12: an exporter built without a supplied endpoint targets
\* localhost:4317 for grpc and localhost:4318 for http and json.
C12_DefaultEndpointByProtocol ==
    \A g \in Goroutines :
        gor[g].exporter # Nil /\ ~EndpointSupplied(g) =>
           exporters[gor[g].exporter].endpoint =
              IF Settings(g).protocol = ProtocolGRPC
              THEN "localhost:4317" ELSE "localhost:4318"

\* the OTEL_* variable of a field (README, configuration section)
EnvVar ==
    [field \in {"serviceName", "serviceVersion", "environment", "endpoint",
                "protocol", "insecure", "samplingRatio"} |->
       CASE field = "serviceName"    -> "OTEL_SERVICE_NAME"
         [] field = "serviceVersion" -> "OTEL_SERVICE_VERSION"
         [] field = "environment"    -> "OTEL_ENVIRONMENT"
         [] field = "endpoint"       -> "OTEL_ENDPOINT"
         [] field = "protocol"       -> "OTEL_PROTOCOL"
         [] field = "insecure"       -> "OTEL_INSECURE"
         [] field = "samplingRatio"  -> "OTEL_SAMPLING_RATIO"]

\* the value a variable's text stands for: a flag for OTEL_INSECURE, tenths
\* for OTEL_SAMPLING_RATIO, the text itself for the others
FromEnv(field, text) ==
    CASE field = "insecure" -> text = "true"
      [] field = "samplingRatio" ->
            (CASE text = "0.5" -> 5 [] text = "1.0" -> 10 [] OTHER -> 0)
      [] OTHER -> text

\* C13: a field that an option sets has the option's value; a field that
\* no option sets and whose OTEL_* variable is set has the variable's value.
C13_EnvironmentOverDefault ==
    \A g \in Goroutines :
        gor[g].p # Nil =>
           \A field \in DOMAIN EnvVar :
              IF Setters(gor[g].opts, field) # {}
              THEN Settings(g)[field] =
                      gor[g].opts[Last(Setters(gor[g].opts, field))].value
              ELSE EnvVar[field] \in DOMAIN osEnv =>
                      Settings(g)[field] = FromEnv(field, osEnv[EnvVar[field]])

\* C14: under every interleaving of RegisterTracer and GetTracer calls no
\* two accesses to the registry map overlap unless both are reads, the
\* process is not stopped, and a GetTracer call that has returned a tracer
\* found in the map returned one that was registered under the name it
\* asked for (a call that found none took the fallback).
C14_NoRegistryRace ==
    /\ \A g, h \in Goroutines :
          g # h /\ InAccess(g) /\ InAccess(h) =>
             mapAccess[g].pc = "reading" /\ mapAccess[h].pc = "reading"
    /\ \A g \in Goroutines :
          /\ mapAccess[g].pc # "crashed"
          /\ mapAccess[g].op = "GetTracer" /\ mapAccess[g].pc = "idle"
                /\ mapAccess[g].exists
             => <<mapAccess[g].name, mapAccess[g].val>> \in everRegistered

\* the calls that change a span
Mutators == {"SetAttributes", "SetStatus", "RecordError"}

\* C15: on no span of any hook does a SetAttributes, SetStatus or
\* RecordError come after the span's End, on any path.
C15_NoMutationAfterEnd ==
    \A i \in 1..Len(spans) :
        \A j, k \in 1..Len(spans[i].log) :
            j < k /\ spans[i].log[j] = "End" => spans[i].log[k] \notin Mutators

\* a Redis command has failed: the error was recorded and the status set
\* on the span, and then the span was ended
C15_Witness ==
    /\ call.kind = "redis" /\ call.phase = "done"
    /\ call.err = PlainError("timeout")
    /\ spans[1].log = <<"Start", "RecordError", "SetStatus", "End">>
    /\ spans[1].status = [code |-> "Error", msg |-> "timeout"]

\* the callbacks of the hook in the chains, as <<kind, position>>
TracingCallbacks ==
    { kp \in UNION { {kind} \X (1..Len(callbacks[kind])) : kind \in GormKinds } :
        callbacks[kp[1]][kp[2]].fn \in {"before", "after"} }

FailedCmds ==
    { i \in 1..Len(call.in.cmdErrs) :
        call.in.cmdErrs[i] \notin {NoError, RedisNilError} }

\* C17: for a pipeline of N commands one span named "redis.pipeline" with
\* db.redis.num_cmd = N is started; AfterProcessPipeline ends it exactly
\* once and returns nil; if a command failed, the status is Error with the
\* message of the first failed command and only that error is recorded.
C17_PipelineSpan ==
    call.kind = "pipeline" =>
       /\ Len(spans) = 1
       /\ spans[1].name = "redis.pipeline"
       /\ spans[1].attrs["db.redis.num_cmd"] = call.in.numCmds
       /\ call.phase = "done" =>
            /\ Len(call.in.cmdErrs) = call.in.numCmds
            /\ EndCount(spans[1]) = 1
            /\ call.ret.err = NoError
            /\ IF FailedCmds # {}
               THEN LET first == CHOOSE i \in FailedCmds : \A j \in FailedCmds : i <= j
                    IN  /\ spans[1].status =
                              [code |-> "Error",
                               msg  |-> ErrorText(call.in.cmdErrs[first])]
                        /\ spans[1].errors = <<call.in.cmdErrs[first]>>
               ELSE /\ spans[1].errors = <<>>
                    /\ spans[1].status.code # "Error"

\* a pipeline of two commands that both failed: the span carries the first
\* command's error only
C17_Witness ==
    /\ call.kind = "pipeline" /\ call.phase = "done"
    /\ call.in.cmdErrs = <<PlainError("conn refused"), PlainError("timeout")>>
    /\ spans[1].attrs["db.redis.num_cmd"] = 2
    /\ spans[1].status = [code |-> "Error", msg |-> "conn refused"]
    /\ spans[1].errors = <<PlainError("conn refused")>>
    /\ EndCount(spans[1]) = 1

\* the status code of the response: the one the underlying writer sent, or
\* 200 if the handler wrote nothing
FinalStatus(rw) == IF rw.sent = 0 THEN 200 ELSE rw.sent

\* C18: the http.status_code attribute of the span equals the status code
\* of the response, for every sequence of WriteHeader and Write calls of
\* the handler.
C18_StatusCodeRecorded ==
    call.kind = "http" /\ call.phase = "done" =>
       spans[1].attrs["http.status_code"] = FinalStatus(call.in.rw)

\* the calls of a script that are not Context, as the stream receives them
RECURSIVE Forwarded(_)
Forwarded(script) ==
    IF script = <<>> THEN <<>>
    ELSE IF Head(script).op = "Context" THEN Forwarded(Tail(script))
    ELSE <<[op |-> Head(script).op, arg |-> Head(script).arg]>>
            \o Forwarded(Tail(script))

\* C19: on the stream the handler is given, Context returns the context
\* that carries the interceptor's span, every time; every other call
\* reaches the original stream with its argument, in order, and its result
\* is what the original stream returned; nothing else reaches the stream.
C19_StreamWrapperDelegates ==
    call.kind = "streamSession" /\ call.handlerCalls = 1 =>
       /\ Len(call.stream.got) = Len(call.in.script)
       /\ \A i \in 1..Len(call.in.script) :
             IF call.in.script[i].op = "Context"
             THEN call.stream.got[i] = [base |-> call.in.ctx, span |-> 1]
             ELSE call.stream.got[i] = call.in.script[i].result
       /\ call.stream.w.ServerStream.log = Forwarded(call.in.script)
       /\ call.stream.w.ServerStream.ctx = [base |-> call.in.ctx, span |-> 0]

\* a handler asked for the context and then failed to send: it got the
\* context with the span, and the stream's own error for the SendMsg
C19_Witness ==
    /\ call.kind = "streamSession" /\ call.phase = "done"
    /\ call.in.script = << [op |-> "Context", arg |-> "", result |-> NoError],
                           [op |-> "SendMsg", arg |-> "x",
                            result |-> PlainError("EOF")] >>
    /\ call.stream.got[1].span = 1
    /\ call.stream.got[2] = PlainError("EOF")
    /\ call.stream.w.ServerStream.log = << [op |-> "SendMsg", arg |-> "x"] >>
    /\ EndCount(spans[1]) = 1

\* C20: GormTracingHook.before completes for every statement (so that
\* GORM goes on to run the statement); for one whose schema is nil it starts
\* a span named "gorm" and stores it in the statement's context, and the
\* after callback ends that span; with a schema the span is named "gorm."
\* and the table.
C20_BeforeWithoutSchema ==
    /\ call.kind = "gorm" =>
          /\ call.phase # "panicked" \/ call.handlerCalls = 1
          /\ Len(spans) = 1 /\ call.ctxSpan = 1
          /\ spans[1].name = IF call.in.schemaNil THEN "gorm" ELSE "gorm.users"
          /\ call.phase = "done" => EndCount(spans[1]) = 1
    /\ call.kind = "gormExec" /\ callbacks # GormDefaultCallbacks =>
          call.handlerCalls = 1

\* C21: for every incoming unary or streaming call, whatever its context
\* holds (a peer or none, metadata or none), the interceptor starts the
\* span, calls the handler exactly once and ends the span.
C21_HandlerCalledOnce ==
    call.kind \in {"unary", "stream"} =>
       /\ call.handlerCalls = 1
       /\ Len(spans) = 1
       /\ Head(spans[1].log) = "Start"
       /\ EndCount(spans[1]) = 1
       /\ ~call.in.outcome.panics => call.phase = "done"

====
